---- MODULE Spec2Model ----
(***************************************************************************)
(* Model of main.py: the playlist transfer script.                          *)
(*                                                                         *)
(* One run of main() is a sequential process whose position is pc.  The     *)
(* source playlist, the destination playlist and the progress file outlive  *)
(* a run; main() may be run again after it has ended, and the owner of the  *)
(* source playlist may edit it between two runs.                            *)
(*                                                                         *)
(* Strings are sequences of characters.  The empty sequence stands for      *)
(* every falsy Python value the code tests with "if x" (None and "").       *)
(***************************************************************************)
EXTENDS Integers, Sequences, FiniteSets, TLC

\* ---------------------------------------------------------------- bounds
MaxSrc == 3          \* longest source playlist considered
MaxRuns == 2         \* number of times main() is started
MaxEdits == 1        \* number of times the source playlist is edited
PageSize == 2        \* entries per page (the request asks for 50)

\* ---------------------------------------------------------------- values
\* video ids as the service hands them out: non-empty, no white space
Ids == { <<"a">>, <<"b">> }
\* a playlist entry: its video id, or <<>> when it carries none
Entries == Ids \cup { <<>> }
NoToken == 0
\* lines 9-24: the four values the user fills in
ConfigNames == { "API_KEY", "SOURCE_PLAYLIST_ID", "DESTINATION_PLAYLIST_ID", "ACCESS_TOKEN" }

RECURSIVE SeqsUpTo(_, _)
SeqsUpTo(S, n) ==
  IF n = 0 THEN { <<>> }
  ELSE LET shorter == SeqsUpTo(S, n - 1)
       IN shorter \cup { Append(s, e) : s \in { t \in shorter : Len(t) = n - 1 }, e \in S }

Sources == SeqsUpTo(Entries, MaxSrc)

Range(s) == { s[k] : k \in 1..Len(s) }

\* The script never looks into an id: it only compares ids with each other.
\* A playlist whose first id is "b" behaves as the one with "a" and "b"
\* exchanged, so the playlists the script is first run on begin with "a".
FirstSources ==
  { s \in Sources : \A k \in 1..Len(s) :
      (s[k] # <<>> /\ \A j \in 1..(k - 1) : s[j] = <<>>) => s[k] = <<"a">> }

\* ---------------------------------------------------------------- state
VARIABLES
  config,               \* the names, of the four values at the top of the script, that are set
  source,               \* the source playlist on the service: entries in order
  svcRepeat,            \* the listing service hands out a token it handed out before
  dest,                 \* the destination playlist: ids inserted, in order
  progress,             \* progress.txt: <<>> when absent, else <<its text>>
  pc,                   \* position of main()
  videos,               \* get_all_videos_from_playlist: videos
  next_page_token,      \* get_all_videos_from_playlist: next_page_token
  video_ids,            \* main: video_ids
  last_video_id,        \* main: last_video_id
  videos_to_add,        \* main: videos_to_add
  i,                    \* main: 1-based position of the for loop
  successful_additions, \* main: successful_additions
  summary,              \* the two numbers of the final summary line, or <<>>
  \* history of the current run
  startProgress,        \* progress when the run started
  listing,              \* "none", then "ok" or "failed" once the lister has returned
  attempted,            \* ids handed to add_video_to_playlist, in order
  inserted,             \* ids whose insertion succeeded, in order
  failedAt,             \* 1-based work position of the first failed insertion, 0 if none
  cleared,              \* the run took the branch that deletes the progress file
  killedAt,             \* pc at which the run was terminated externally, "" if it was not
  lastResp,             \* what the last insertion request met, "" before the first
  \* history across runs
  prev,                 \* the run before this one: where it was terminated, what it
                        \* listed, how many listed ids its work left out, what it inserted
  runs,                 \* runs started
  edits,                \* edits of the source playlist
  firstPass             \* no earlier run was terminated externally or ended with all
                        \* its work inserted

vars == << config, source, svcRepeat, dest, progress, pc, videos, next_page_token,
           video_ids, last_video_id, videos_to_add, i, successful_additions,
           summary, startProgress, listing, attempted, inserted, failedAt, cleared,
           killedAt, lastResp, prev, runs, edits, firstPass >>

env == << config, source, svcRepeat, dest, progress >>
lister == << videos, next_page_token >>
locals == << video_ids, last_video_id, videos_to_add, i, successful_additions, summary >>
hist == << startProgress, listing, attempted, inserted, failedAt, cleared, killedAt,
          lastResp >>
multi == << prev, runs, edits, firstPass >>

Listing == { "list" }
Transferring == { "loop", "save", "sleep" }
Returned == { "ret_config", "ret_empty", "ret_summary" }
Ended == Returned \cup { "raised", "killed" }
\* positions at which the work item has been computed and the run has not been cut short
Planned == Transferring \cup { "report", "ret_summary" }

NoPrev == [ killedAt |-> "", inserted |-> <<>>, video_ids |-> <<>>, skipped |-> 0 ]

\* ---------------------------------------------------------------- pure parts
\* str.strip(): drop leading and trailing white space
IsSpace(c) == c \in { " ", "\n", "\t" }

RECURSIVE LStrip(_)
LStrip(s) == IF s # <<>> /\ IsSpace(Head(s)) THEN LStrip(Tail(s)) ELSE s

RECURSIVE RStrip(_)
RStrip(s) == IF s # <<>> /\ IsSpace(s[Len(s)]) THEN RStrip(SubSeq(s, 1, Len(s) - 1)) ELSE s

Strip(s) == RStrip(LStrip(s))

\* list.index(x): the first position of x, 0 standing for ValueError
RECURSIVE IndexFrom(_, _, _)
IndexFrom(s, x, k) ==
  IF k > Len(s) THEN 0
  ELSE IF s[k] = x THEN k
  ELSE IndexFrom(s, x, k + 1)

Index(s, x) == IndexFrom(s, x, 1)

\* s[k:] with k 0-based
Slice(s, k) == SubSeq(s, k + 1, Len(s))

\* get_last_video_id(): the stripped text of the progress file, <<>> for None
get_last_video_id(file) == IF file # <<>> THEN Strip(file[1]) ELSE <<>>

\* PlanWork starting at the recorded id instead of after it
PlanWork_inclusive(ids, last) ==
  IF last # <<>>
  THEN IF Index(ids, last) # 0
       THEN Slice(ids, Index(ids, last) - 1)
       ELSE ids
  ELSE ids

\* PlanWork with a stale checkpoint taken as "nothing left to do"
PlanWork_staleNothing(ids, last) ==
  IF last # <<>>
  THEN IF Index(ids, last) # 0
       THEN Slice(ids, (Index(ids, last) - 1) + 1)
       ELSE <<>>
  ELSE ids

\* main, lines 127-136: the work of the run
PlanWork(ids, last) ==
  IF last # <<>>
  THEN IF Index(ids, last) # 0
       THEN Slice(ids, (Index(ids, last) - 1) + 1)
       ELSE ids
  ELSE ids

\* ---------------------------------------------------------------- the listing service
\* the page a token stands for
PageOf(token) == IF token = NoToken THEN 1 ELSE token

\* "items" of the response for page p
PageItems(src, p) ==
  SubSeq(src, (p - 1) * PageSize + 1, IF p * PageSize < Len(src) THEN p * PageSize ELSE Len(src))

\* the number of the last page of the playlist
LastPage(src) == IF src = <<>> THEN 1 ELSE (Len(src) + PageSize - 1) \div PageSize

\* "nextPageToken" of the response for page p.  A service with svcRepeat set
\* goes on after the last page with two empty pages, each of which carries the
\* token of the other: from the third such response on, every token is one
\* the service has handed out before.
NextToken(src, p, repeat) ==
  IF p < LastPage(src) THEN p + 1
  ELSE IF ~repeat THEN NoToken
  ELSE IF p = LastPage(src) + 2 THEN LastPage(src) + 1
  ELSE p + 1

\* PageIds without the test of line 52
PageIds_keepAll(items) == items

\* lines 50-53: the ids of the entries of one page that carry one
RECURSIVE PageIds(_)
PageIds(items) ==
  IF items = <<>> THEN <<>>
  ELSE IF Head(items) # <<>> THEN <<Head(items)>> \o PageIds(Tail(items))
  ELSE PageIds(Tail(items))

\* ---------------------------------------------------------------- add_video_to_playlist
\* what the insertion request can meet
Responses == { "2xx", "http_unparseable", "http_no_error_object",
               "http_error_details", "http_error_no_details", "transport" }

\* lines 84-100: TRUE, FALSE, or "raise" when an exception leaves the function
add_video_to_playlist(resp) ==
  CASE resp = "2xx" -> "True"
    [] resp = "http_unparseable" -> "False"
    [] resp = "http_no_error_object" -> "False"
    [] resp = "http_error_details" -> "False"
    [] resp = "http_error_no_details" -> "raise"
    [] resp = "transport" -> "False"

\* ---------------------------------------------------------------- the configuration
\* AllSet passing as soon as one value is set
AllSet_any(cfg) == cfg # {}

\* line 116: all([API_KEY, SOURCE_PLAYLIST_ID, DESTINATION_PLAYLIST_ID, ACCESS_TOKEN])
AllSet(cfg) == \A name \in ConfigNames : name \in cfg

\* ---------------------------------------------------------------- initial state
Init ==
  /\ config = {}
  /\ source \in FirstSources
  /\ svcRepeat = FALSE
  /\ dest = <<>>
  /\ progress = <<>>
  /\ pc = "idle"
  /\ videos = <<>>
  /\ next_page_token = NoToken
  /\ video_ids = <<>>
  /\ last_video_id = <<>>
  /\ videos_to_add = <<>>
  /\ i = 1
  /\ successful_additions = 0
  /\ summary = <<>>
  /\ startProgress = <<>>
  /\ listing = "none"
  /\ attempted = <<>>
  /\ inserted = <<>>
  /\ failedAt = 0
  /\ cleared = FALSE
  /\ killedAt = ""
  /\ lastResp = ""
  /\ prev = NoPrev
  /\ runs = 0
  /\ edits = 0
  /\ firstPass = TRUE

\* ---------------------------------------------------------------- main()
\* lines 116-120: the configuration test, then the call of the lister
Start(cfg, repeat) ==
  /\ pc = "idle"
  /\ AllSet(cfg) \/ ~repeat
  /\ runs < MaxRuns
  /\ runs' = runs + 1
  /\ config' = cfg
  /\ startProgress' = progress
  /\ IF AllSet(cfg)
     THEN /\ pc' = "list"
          /\ svcRepeat' = repeat
          /\ videos' = <<>>
          /\ next_page_token' = NoToken
     ELSE /\ pc' = "ret_config"
          /\ UNCHANGED << svcRepeat, lister >>
  /\ UNCHANGED << source, dest, progress, locals, listing, attempted, inserted,
                  failedAt, cleared, killedAt, lastResp, prev, edits, firstPass >>

\* lines 35-57 and 63-64, 122-124: one page request that succeeds
ListPage ==
  /\ pc = "list"
  /\ LET p == PageOf(next_page_token)
         got == videos \o PageIds(PageItems(source, p))
         token == NextToken(source, p, svcRepeat)
     IN /\ videos' = got
        /\ next_page_token' = token
        /\ IF token # NoToken
           THEN /\ pc' = "list"
                /\ UNCHANGED << video_ids, listing >>
           ELSE /\ video_ids' = got
                /\ listing' = "ok"
                /\ pc' = IF got = <<>> THEN "ret_empty" ELSE "resume"
  /\ UNCHANGED << env, last_video_id, videos_to_add, i, successful_additions,
                  summary, startProgress, attempted, inserted, failedAt, cleared,
                  killedAt, lastResp, multi >>

\* ListFail returning what the earlier pages supplied
ListFail_partial ==
  /\ pc = "list"
  /\ video_ids' = videos
  /\ listing' = "failed"
  /\ pc' = IF videos = <<>> THEN "ret_empty" ELSE "resume"
  /\ UNCHANGED << env, lister, last_video_id, videos_to_add, i,
                  successful_additions, summary, startProgress, attempted,
                  inserted, failedAt, cleared, killedAt, lastResp, multi >>

\* ListFail treating "nothing to transfer" as a finished transfer
ListFail_clear ==
  /\ pc = "list"
  /\ video_ids' = <<>>
  /\ listing' = "failed"
  /\ progress' = <<>>
  /\ pc' = "ret_empty"
  /\ UNCHANGED << config, source, svcRepeat, dest, lister, last_video_id,
                  videos_to_add, i, successful_additions, summary, startProgress,
                  attempted, inserted, failedAt, cleared, killedAt, lastResp, multi >>

\* lines 59-61, 122-124: a page request that fails
ListFail ==
  /\ pc = "list"
  /\ video_ids' = <<>>
  /\ listing' = "failed"
  /\ pc' = "ret_empty"
  /\ UNCHANGED << env, lister, last_video_id, videos_to_add, i,
                  successful_additions, summary, startProgress, attempted,
                  inserted, failedAt, cleared, killedAt, lastResp, multi >>

\* lines 126-140: read the progress file, plan the work, enter the loop
Resume ==
  /\ pc = "resume"
  /\ last_video_id' = get_last_video_id(progress)
  /\ videos_to_add' = PlanWork(video_ids, get_last_video_id(progress))
  /\ successful_additions' = 0
  /\ i' = 1
  /\ pc' = IF PlanWork(video_ids, get_last_video_id(progress)) = <<>> THEN "report" ELSE "loop"
  /\ UNCHANGED << env, lister, video_ids, summary, hist, multi >>

\* lines 141-144: an insertion that succeeds
InsertOk(resp) ==
  /\ pc = "loop"
  /\ add_video_to_playlist(resp) = "True"
  /\ dest' = Append(dest, videos_to_add[i])
  /\ attempted' = Append(attempted, videos_to_add[i])
  /\ inserted' = Append(inserted, videos_to_add[i])
  /\ successful_additions' = successful_additions + 1
  /\ lastResp' = resp
  /\ pc' = "save"
  /\ UNCHANGED << config, source, svcRepeat, progress, lister, video_ids, last_video_id,
                  videos_to_add, i, summary, startProgress, listing, failedAt,
                  cleared, killedAt, multi >>

\* InsertFail going on with the next item instead of leaving the loop
InsertFail_continue(resp) ==
  /\ pc = "loop"
  /\ add_video_to_playlist(resp) = "False"
  /\ attempted' = Append(attempted, videos_to_add[i])
  /\ failedAt' = IF failedAt = 0 THEN i ELSE failedAt
  /\ lastResp' = resp
  /\ i' = i + 1
  /\ pc' = IF i + 1 > Len(videos_to_add) THEN "report" ELSE "loop"
  /\ UNCHANGED << env, lister, video_ids, last_video_id, videos_to_add,
                  successful_additions, summary, startProgress, listing,
                  inserted, cleared, killedAt, multi >>

\* InsertFail trying the same item again
InsertFail_retry(resp) ==
  /\ pc = "loop"
  /\ add_video_to_playlist(resp) = "False"
  /\ attempted' = Append(attempted, videos_to_add[i])
  /\ failedAt' = IF failedAt = 0 THEN i ELSE failedAt
  /\ lastResp' = resp
  /\ pc' = "loop"
  /\ UNCHANGED << env, lister, locals, startProgress, listing, inserted,
                  cleared, killedAt, multi >>

\* InsertFail with the progress written before the result is looked at
InsertFail_record(resp) ==
  /\ pc = "loop"
  /\ add_video_to_playlist(resp) = "False"
  /\ attempted' = Append(attempted, videos_to_add[i])
  /\ failedAt' = i
  /\ lastResp' = resp
  /\ progress' = << videos_to_add[i] >>
  /\ pc' = "report"
  /\ UNCHANGED << config, source, svcRepeat, dest, lister, locals, startProgress,
                  listing, inserted, cleared, killedAt, multi >>

\* lines 141-143, 148-150: an insertion that fails, which ends the loop
InsertFail(resp) ==
  /\ pc = "loop"
  /\ add_video_to_playlist(resp) = "False"
  /\ attempted' = Append(attempted, videos_to_add[i])
  /\ failedAt' = i
  /\ lastResp' = resp
  /\ pc' = "report"
  /\ UNCHANGED << env, lister, locals, startProgress, listing, inserted,
                  cleared, killedAt, multi >>

\* lines 93-94: an exception of add_video_to_playlist that nothing catches
InsertRaise(resp) ==
  /\ pc = "loop"
  /\ add_video_to_playlist(resp) = "raise"
  /\ attempted' = Append(attempted, videos_to_add[i])
  /\ failedAt' = i
  /\ lastResp' = resp
  /\ pc' = "raised"
  /\ UNCHANGED << env, lister, locals, startProgress, listing, inserted,
                  cleared, killedAt, multi >>

\* line 145 with lines 109-112: record the id just inserted
Save ==
  /\ pc = "save"
  /\ progress' = << videos_to_add[i] >>
  /\ pc' = "sleep"
  /\ UNCHANGED << config, source, svcRepeat, dest, lister, locals, hist, multi >>

\* line 147, then the next round of the for loop
Sleep ==
  /\ pc = "sleep"
  /\ i' = i + 1
  /\ pc' = IF i + 1 > Len(videos_to_add) THEN "report" ELSE "loop"
  /\ UNCHANGED << env, lister, video_ids, last_video_id, videos_to_add,
                  successful_additions, summary, hist, multi >>

\* Report comparing the counter with the length of the whole listing
Report_fullLength ==
  /\ pc = "report"
  /\ summary' = << successful_additions, Len(videos_to_add) >>
  /\ IF successful_additions = Len(video_ids)
     THEN /\ cleared' = TRUE
          /\ progress' = <<>>
     ELSE /\ UNCHANGED << cleared, progress >>
  /\ pc' = "ret_summary"
  /\ UNCHANGED << config, source, svcRepeat, dest, lister, video_ids, last_video_id,
                  videos_to_add, i, successful_additions, startProgress,
                  listing, attempted, inserted, failedAt, killedAt, lastResp, multi >>

\* Report printing the length of the whole listing as the planned count
Report_fullSummary ==
  /\ pc = "report"
  /\ summary' = << successful_additions, Len(video_ids) >>
  /\ IF successful_additions = Len(videos_to_add)
     THEN /\ cleared' = TRUE
          /\ progress' = <<>>
     ELSE /\ UNCHANGED << cleared, progress >>
  /\ pc' = "ret_summary"
  /\ UNCHANGED << config, source, svcRepeat, dest, lister, video_ids, last_video_id,
                  videos_to_add, i, successful_additions, startProgress,
                  listing, attempted, inserted, failedAt, killedAt, lastResp, multi >>

\* lines 152-157: the summary, and the removal of the progress file
Report ==
  /\ pc = "report"
  /\ summary' = << successful_additions, Len(videos_to_add) >>
  /\ IF successful_additions = Len(videos_to_add)
     THEN /\ cleared' = TRUE
          /\ progress' = <<>>
     ELSE /\ UNCHANGED << cleared, progress >>
  /\ pc' = "ret_summary"
  /\ UNCHANGED << config, source, svcRepeat, dest, lister, video_ids, last_video_id,
                  videos_to_add, i, successful_additions, startProgress,
                  listing, attempted, inserted, failedAt, killedAt, lastResp, multi >>

\* ---------------------------------------------------------------- environment
\* the process is terminated from outside while it transfers.  (Terminated
\* earlier or later, it leaves the playlists and the progress file as a run
\* whose listing failed, or whose loop ended, leaves them.)
Kill ==
  /\ pc \in Transferring
  /\ killedAt' = pc
  /\ pc' = "killed"
  /\ UNCHANGED << env, lister, locals, startProgress, listing, attempted,
                  inserted, failedAt, cleared, lastResp, multi >>

\* the script is started again: a fresh process
Restart ==
  /\ pc \in Ended
  /\ runs < MaxRuns
  /\ prev' = [ killedAt |-> killedAt, inserted |-> inserted, video_ids |-> video_ids,
               skipped |-> Len(video_ids) - Len(videos_to_add) ]
  /\ pc' = "idle"
  /\ videos' = <<>>
  /\ next_page_token' = NoToken
  /\ video_ids' = <<>>
  /\ last_video_id' = <<>>
  /\ videos_to_add' = <<>>
  /\ i' = 1
  /\ successful_additions' = 0
  /\ summary' = <<>>
  /\ startProgress' = progress
  /\ listing' = "none"
  /\ attempted' = <<>>
  /\ inserted' = <<>>
  /\ failedAt' = 0
  /\ cleared' = FALSE
  /\ killedAt' = ""
  /\ lastResp' = ""
  /\ config' = {}
  /\ svcRepeat' = FALSE
  /\ firstPass' = (firstPass /\ pc # "killed" /\ ~(pc = "ret_summary" /\ cleared))
  /\ UNCHANGED << source, dest, progress, runs, edits >>

\* the owner of the source playlist removes its k-th entry while the script
\* is not running
RemoveEntry(k) ==
  /\ pc = "idle"
  /\ runs > 0
  /\ edits < MaxEdits
  /\ k \in 1..Len(source)
  /\ source' = SubSeq(source, 1, k - 1) \o SubSeq(source, k + 1, Len(source))
  /\ edits' = edits + 1
  /\ UNCHANGED << config, svcRepeat, dest, progress, pc, lister, locals, hist, prev,
                  runs, firstPass >>

\* the owner of the source playlist appends an entry while the script is not
\* running
AddEntry(e) ==
  /\ pc = "idle"
  /\ runs > 0
  /\ edits < MaxEdits
  /\ Len(source) < MaxSrc
  /\ source' = Append(source, e)
  /\ edits' = edits + 1
  /\ UNCHANGED << config, svcRepeat, dest, progress, pc, lister, locals, hist, prev,
                  runs, firstPass >>

Next ==
  \/ \E cfg \in SUBSET ConfigNames, repeat \in BOOLEAN : Start(cfg, repeat)
  \/ ListPage
  \/ ListFail
  \/ Resume
  \/ \E resp \in Responses : InsertOk(resp)
  \/ \E resp \in Responses : InsertFail(resp)
  \/ \E resp \in Responses : InsertRaise(resp)
  \/ Save
  \/ Sleep
  \/ Report
  \/ Kill
  \/ Restart
  \/ \E k \in 1..MaxSrc : RemoveEntry(k)
  \/ \E e \in Entries : AddEntry(e)

Spec == Init /\ [][Next]_vars

\* a started script that is not terminated keeps running: every call blocks
\* only until its response or its transport failure
LiveSpec == Init /\ [][Next]_vars /\ WF_vars(ListPage \/ ListFail)

\* ---------------------------------------------------------------- properties
\* the entries of a playlist that carry an id, in order
Resolvable(s) == SelectSeq(s, LAMBDA e : e # <<>>)

\* C1 (as written): once the M-th insertion has failed and the run has ended,
\* only items 1..M were attempted, the progress file was not removed, and it
\* holds item M-1 of the work, or does not exist if M = 1.
C1_HaltOnFailure_AbsentIfFirst ==
  (failedAt # 0 /\ pc \in Ended) =>
    /\ attempted = SubSeq(videos_to_add, 1, failedAt)
    /\ ~cleared
    /\ progress = IF failedAt = 1 THEN <<>> ELSE << videos_to_add[failedAt - 1] >>

\* C1 (amended): once the M-th insertion has failed, only items 1..M have been
\* attempted, the progress file is not removed, and it holds item M-1 of the
\* work, or, if M = 1, what it held when the run started.
C1_HaltOnFailure ==
  failedAt # 0 =>
    /\ attempted = SubSeq(videos_to_add, 1, failedAt)
    /\ ~cleared
    /\ progress = IF failedAt = 1 THEN startProgress ELSE << videos_to_add[failedAt - 1] >>

\* a run that ended after its second insertion failed, a third item left over
C1_Witness ==
  /\ pc = "ret_summary"
  /\ failedAt = 2
  /\ Len(videos_to_add) = 3
  /\ progress = << videos_to_add[1] >>

\* C2 (as written): when the id read from the progress file is the K-th of
\* the N listed ids, the work has N-K elements and is the listing after
\* position K.
C2_ResumeCorrectness_AnyK ==
  \A K \in 1..Len(video_ids) :
    (pc \in Planned /\ last_video_id = video_ids[K]) =>
      /\ Len(videos_to_add) = Len(video_ids) - K
      /\ videos_to_add = SubSeq(video_ids, K + 1, Len(video_ids))

\* C2 (amended): when the id read from the progress file is the K-th of the N
\* listed ids and occurs at no position before K, the work has N-K elements
\* and is the listing after position K.
C2_ResumeCorrectness ==
  \A K \in 1..Len(video_ids) :
    (/\ pc \in Planned
     /\ last_video_id = video_ids[K]
     /\ \A j \in 1..(K - 1) : video_ids[j] # last_video_id) =>
      /\ Len(videos_to_add) = Len(video_ids) - K
      /\ videos_to_add = SubSeq(video_ids, K + 1, Len(video_ids))

\* a run resumed after the second of three listed ids
C2_Witness ==
  /\ pc = "loop"
  /\ attempted = <<>>
  /\ Len(video_ids) = 3
  /\ last_video_id = video_ids[2]
  /\ video_ids[1] # last_video_id
  /\ videos_to_add = << video_ids[3] >>

\* C3: from the reading of the progress file to the end of the run, the
\* progress file, if it exists, holds an id of the listing whose insertion
\* into the destination has succeeded.
C3_CheckpointInvariant ==
  (pc \in Planned /\ progress # <<>>) =>
    /\ progress[1] \in Range(video_ids)
    /\ progress[1] \in Range(dest)

\* C4: a run that ends with every item of its work inserted (an empty work
\* included) leaves no progress file.
C4_CompletionClears ==
  (pc = "ret_summary" /\ inserted = videos_to_add) => progress = <<>>

\* a resumed run that inserted all that was left and ended
C4_Witness ==
  /\ pc = "ret_summary"
  /\ startProgress # <<>>
  /\ last_video_id \in Range(video_ids)
  /\ inserted = videos_to_add
  /\ inserted # <<>>
  /\ progress = <<>>

\* C5: the step that reads a progress file naming an id that is not in the
\* listing makes the whole listing the work and enters the transfer loop.
C5_StaleFallback ==
  [][ (pc = "resume" /\ last_video_id' # <<>> /\ last_video_id' \notin Range(video_ids)) =>
        /\ videos_to_add' = video_ids
        /\ Len(videos_to_add') = Len(video_ids)
        /\ pc' = "loop" ]_vars

\* a run about to insert the first id of the listing after a stale checkpoint
C5_Witness ==
  /\ pc = "loop"
  /\ attempted = <<>>
  /\ last_video_id # <<>>
  /\ last_video_id \notin Range(video_ids)
  /\ videos_to_add = video_ids

\* C6: when the id read from the progress file is not in the listing, the
\* progress file no longer holds that id from the start of the transfer on.
C6_StaleDiscarded ==
  (pc \in Planned /\ last_video_id # <<>> /\ last_video_id \notin Range(video_ids)) =>
    progress # << last_video_id >>

\* C7: a run that follows a run terminated during the transfer, over the same
\* listing, works on a suffix of the listing and attempts at most one
\* position of the listing that the terminated run had inserted.
IsSuffix(t, s) == Len(t) <= Len(s) /\ t = SubSeq(s, Len(s) - Len(t) + 1, Len(s))

\* positions of the listing the terminated run inserted
PrevInserted == (prev.skipped + 1)..(prev.skipped + Len(prev.inserted))

\* positions of the listing this run has attempted
NowAttempted ==
  (Len(video_ids) - Len(videos_to_add) + 1)..(Len(video_ids) - Len(videos_to_add) + Len(attempted))

C7_RestartRework ==
  (prev.killedAt \in Transferring /\ pc \in Planned /\ video_ids = prev.video_ids) =>
    /\ IsSuffix(videos_to_add, video_ids)
    /\ Cardinality(NowAttempted \cap PrevInserted) <= 1

\* C8: a step changes the progress file only by recording the id just
\* inserted or by removing the file at the end; the recording step leaves
\* the file holding that id.
C8_CheckpointMonotonic ==
  [][ /\ (pc = "save" /\ pc' = "sleep") => progress' = << videos_to_add[i] >>
      /\ progress' # progress =>
           \/ pc = "save" /\ pc' = "sleep" /\ inserted[Len(inserted)] = progress'[1]
           \/ pc = "report" /\ pc' = "ret_summary" /\ progress' = <<>> ]_vars

\* a run whose insertion failed after an id had been recorded, which is still there
C8_Witness ==
  /\ pc = "report"
  /\ failedAt = 2
  /\ progress = << videos_to_add[1] >>
  /\ startProgress # progress

\* C9: the lister, once started, returns.
C9_ListerTerminates == (pc = "list") ~> (pc # "list")

\* C10: a listing without a failed request is the ids of the entries of the
\* source that carry one, in the order of the source.
C10_ListerOutput ==
  listing = "ok" =>
    /\ video_ids = Resolvable(source)
    /\ Len(video_ids) = Cardinality({ k \in 1..Len(source) : source[k] # <<>> })

\* a listing of more than one page that skipped an entry
C10_Witness ==
  /\ listing = "ok"
  /\ Len(source) > PageSize
  /\ Len(video_ids) >= 2
  /\ Len(video_ids) < Len(source)

\* C11: a listing with a failed page request is empty whatever the earlier
\* pages supplied, and the run ends there without an insertion attempt.
C11_ListingFailFast ==
  listing = "failed" =>
    /\ video_ids = <<>>
    /\ pc = "ret_empty"
    /\ attempted = <<>>
    /\ inserted = <<>>

\* a request that failed after an earlier page had supplied ids
C11_Witness ==
  /\ listing = "failed"
  /\ videos # <<>>
  /\ next_page_token # NoToken
  /\ video_ids = <<>>
  /\ pc = "ret_empty"

\* C12: whatever the insertion request meets, add_video_to_playlist returns
\* to main(), and it returns True exactly for a 2xx response.
C12_InserterNeverThrows ==
  lastResp # "" =>
    /\ pc # "raised"
    /\ (Len(inserted) = Len(attempted)) <=> (lastResp = "2xx")

\* C13: a step that writes the progress file writes the id of the last
\* insertion attempt of the run, which succeeded, as every attempt before it
\* did; the file never comes to name an id the run has not inserted.
C13_WriteAfterSuccess ==
  [][ ((progress' # progress /\ progress' # <<>>) \/ (pc = "save" /\ pc' = "sleep")) =>
        /\ attempted # <<>>
        /\ progress' = << attempted[Len(attempted)] >>
        /\ lastResp = "2xx"
        /\ inserted = attempted
        /\ failedAt = 0
        /\ attempted' = attempted ]_vars

\* the second id of a run has been inserted and written over the first
C13_Witness ==
  /\ pc = "sleep"
  /\ Len(inserted) = 2
  /\ inserted[1] # inserted[2]
  /\ progress = << inserted[2] >>

\* C14: the summary of a run gives the number of insertions that succeeded in
\* the run and the length of its work, not of the listing.
C14_TerminalReporting ==
  /\ pc = "ret_summary" => summary # <<>>
  /\ summary # <<>> => summary = << Len(inserted), Len(videos_to_add) >>

\* a resumed run that inserted one of the two ids left of a listing of three
C14_Witness ==
  /\ pc = "ret_summary"
  /\ Len(video_ids) = 3
  /\ summary = << 1, 2 >>

\* C15: a run started with one of the four values unset has ended without a
\* listing request, an insertion request, or a read, write or removal of the
\* progress file.
C15_IncompleteConfig ==
  (pc # "idle" /\ config # ConfigNames) =>
    /\ pc = "ret_config"
    /\ listing = "none"
    /\ videos = <<>>
    /\ next_page_token = NoToken
    /\ attempted = <<>>
    /\ last_video_id = <<>>
    /\ progress = startProgress
    /\ ~cleared

\* a run with one value unset, started while a progress file exists
C15_Witness ==
  /\ pc = "ret_config"
  /\ Cardinality(config) = 3
  /\ progress # <<>>

\* C16: the ids attempted in a run are the first ids of its work, in order
\* and each position once; all but the last attempt succeeded, and when an
\* attempt after the first is made the progress file holds the id before it.
C16_AttemptsArePrefix ==
  /\ Len(attempted) <= Len(videos_to_add)
  /\ attempted = SubSeq(videos_to_add, 1, Len(attempted))
  /\ Len(inserted) <= Len(attempted)
  /\ Len(attempted) <= Len(inserted) + 1
  /\ inserted = SubSeq(attempted, 1, Len(inserted))
  /\ (Len(attempted) >= 2 /\ (pc = "save" \/ killedAt = "save" \/ failedAt # 0)) =>
       progress = << attempted[Len(attempted) - 1] >>

\* the third id of the work has just been attempted
C16_Witness ==
  /\ pc = "save"
  /\ Len(attempted) = 3
  /\ progress = << attempted[2] >>

\* C17: a run whose listing is empty has ended without an insertion attempt
\* and with the progress file as it was when the run started.
C17_EmptyListingKeepsCheckpoint ==
  (listing # "none" /\ video_ids = <<>>) =>
    /\ pc = "ret_empty"
    /\ attempted = <<>>
    /\ progress = startProgress
    /\ ~cleared

\* a failed listing after a run that had left a resume point
C17_Witness ==
  /\ pc = "ret_empty"
  /\ listing = "failed"
  /\ prev.inserted # <<>>
  /\ progress = << prev.inserted[Len(prev.inserted)] >>

\* C18: over a source that is not edited and lists pairwise distinct ids,
\* when no run has been terminated externally, the first run that ends with
\* all its work inserted leaves the destination equal to the listing.
Distinct(s) == \A j, k \in 1..Len(s) : j # k => s[j] # s[k]

C18_ExactlyOnce ==
  (/\ firstPass
   /\ edits = 0
   /\ pc = "ret_summary"
   /\ cleared
   /\ Distinct(Resolvable(source))) =>
    dest = Resolvable(source)

\* a second run that finished what an aborted first run had begun
C18_Witness ==
  /\ firstPass
  /\ edits = 0
  /\ pc = "ret_summary"
  /\ cleared
  /\ prev.inserted # <<>>
  /\ inserted # <<>>
  /\ dest = prev.inserted \o inserted
  /\ dest = Resolvable(source)

====
